---- MODULE Spec2Model ----
(***************************************************************************)
(* Model of two Prebid.js plugin modules:                                  *)
(*   - the contxtful real-time-data provider (receptivity), whose state is *)
(*     the two module-level variables initialReceptivity and               *)
(*     contxtfulModule, written by init and by the two listeners it        *)
(*     attaches to the external script;                                    *)
(*   - the welect bidder adapter, three pure functions.                    *)
(* JavaScript values are records [t |-> type, v |-> text] so that values   *)
(* of different JavaScript types can be compared.                          *)
(***************************************************************************)
EXTENDS Integers, Sequences, FiniteSets, TLC

VARIABLES
    initialReceptivity,  \* module variable: null or the stored token
    contxtfulModule,     \* module variable: null or the object rxEngineIsReady delivered
    listeners,           \* per script handle: how many listener pairs init attached
    googletag,           \* window.googletag: "absent", "noCmd" or "cmd"
    gptCmd,              \* window.googletag.cmd: the values captured by the queued commands
    initRet,             \* what the most recent init call returned: "none", "true", "false"
    eventSinceInit,      \* an event was delivered since the most recent init call
    last,                \* the most recent provider call: its input and what it did
    bidCall,             \* the adapter call the host makes: function and argument
    bidLast              \* the most recent adapter call: its input and what it did

rtdVars == <<initialReceptivity, contxtfulModule, listeners, googletag, gptCmd,
             initRet, eventSinceInit, last>>
vars == <<initialReceptivity, contxtfulModule, listeners, googletag, gptCmd,
          initRet, eventSinceInit, last, bidCall, bidLast>>

----------------------------------------------------------------------------
(* Bounds *)

MaxListeners == 1   \* listener pairs attached to one script handle
MaxCmd == 1         \* commands waiting in googletag.cmd
MaxUnits == 2       \* ad unit codes in one getTargetingData call
MaxReqs == 2        \* bid requests in one buildRequests call

----------------------------------------------------------------------------
(* JavaScript values *)

Undefined == [t |-> "undefined", v |-> ""]
Null == [t |-> "null", v |-> ""]
Str(s) == [t |-> "string", v |-> s]
Num(s) == [t |-> "number", v |-> s]
Bool(s) == [t |-> "boolean", v |-> s]

Truthy(x) ==
    /\ x.t \notin {"undefined", "null"}
    /\ ~(x.t = "string" /\ x.v = "")
    /\ ~(x.t = "number" /\ x.v = "0")
    /\ ~(x.t = "boolean" /\ x.v = "false")

isStr(x) == x.t = "string"
isEmptyStr(x) == isStr(x) /\ x.v = ""

buildUrl(protocol, host, pathname) == protocol \o "://" \o host \o pathname

----------------------------------------------------------------------------
(* Receptivity provider: constants and inputs *)

MODULE_NAME == "contxtful"
CONTXTFUL_RECEPTIVITY_DOMAIN == "api.receptivity.io"

VersionVals == {Undefined, Str(""), Num("1"), Str("v1")}
CustomerVals == {Undefined, Str(""), Num("7"), Str("c1"), Str("c2")}

\* init's argument: undefined, an object without params, or an object with params
Configs ==
    {[cfg |-> k, version |-> Undefined, customer |-> Undefined] : k \in {"undefined", "noParams"}}
    \cup {[cfg |-> "params", version |-> ver, customer |-> cus] :
             ver \in VersionVals, cus \in CustomerVals}

\* config?.params?.version and config?.params?.customer
ConfigParam(config, name) ==
    IF config.cfg = "params"
    THEN (IF name = "version" THEN config.version ELSE config.customer)
    ELSE Undefined

\* the detail of an initialReceptivity event
InitialDetails ==
    {[has |-> FALSE, ReceptivityState |-> Undefined]}
    \cup {[has |-> TRUE, ReceptivityState |-> r] :
             r \in {Undefined, Str(""), Num("5"), Str("X"), Str("Y")}}

\* the detail of a rxEngineIsReady event: no detail (null), or an object whose
\* GetReceptivity member is missing, throws, returns null or returns a record
NoHandle == [get |-> "none", rs |-> Undefined]
ApiDetails ==
    {NoHandle}
    \cup {[get |-> g, rs |-> Undefined] : g \in {"missing", "throws", "null"}}
    \cup {[get |-> "value", rs |-> r] : r \in {Undefined, Str(""), Str("Z")}}

Codes == {"a", "b"}
SeqsUpTo(S, n) == UNION {[1..k -> S] : k \in 0..n}
\* getTargetingData's first argument: absent, or a sequence of codes
AdUnitArgs ==
    {[given |-> FALSE, codes |-> <<>>]}
    \cup {[given |-> TRUE, codes |-> cs] : cs \in SeqsUpTo(Codes, MaxUnits)}

NoCall == [op |-> "none"]

----------------------------------------------------------------------------
(* Receptivity provider: functions *)

\* a plausible slip: the emptiness test left out
NotNonEmptyString_NoEmptyTest(x) == ~isStr(x)

\* the test extractParameters applies to each field before it throws
NotNonEmptyString(x) == ~isStr(x) \/ isEmptyStr(x)

\* extractParameters: the pair it returns, or the field whose check threw
extractParameters(config) ==
    LET version == ConfigParam(config, "version")
        customer == ConfigParam(config, "customer")
    IN  IF NotNonEmptyString(version)
        THEN [ok |-> FALSE, field |-> "version", version |-> "", customer |-> ""]
        ELSE IF NotNonEmptyString(customer)
        THEN [ok |-> FALSE, field |-> "customer", version |-> "", customer |-> ""]
        ELSE [ok |-> TRUE, field |-> "", version |-> version.v, customer |-> customer.v]

CONNECTOR_URL(version, customer) ==
    buildUrl("https", CONTXTFUL_RECEPTIVITY_DOMAIN,
             "/" \o version \o "/prebid/" \o customer \o "/connector/p.js")

\* the script handles the host can hand out: one per URL
ScriptUrls ==
    {CONNECTOR_URL(ver.v, cus.v) :
        ver \in {x \in VersionVals : isStr(x) /\ ~isEmptyStr(x)},
        cus \in {x \in CustomerVals : isStr(x) /\ ~isEmptyStr(x)}}

\* contxtfulModule?.GetReceptivity()?.ReceptivityState
LiveRead(api) ==
    CASE api.get = "none" -> [ok |-> TRUE, v |-> Undefined]
      [] api.get = "null" -> [ok |-> TRUE, v |-> Undefined]
      [] api.get = "value" -> [ok |-> TRUE, v |-> api.rs]
      [] OTHER -> [ok |-> FALSE, v |-> Undefined]

\* the read of getReceptivity for given values of the two module variables:
\* ok is FALSE when the read throws, else v is the ReceptivityState it yields
ReceptivityOf(api, initial) ==
    LET live == LiveRead(api)
    IN  IF ~live.ok THEN [ok |-> FALSE, v |-> Undefined]
        ELSE [ok |-> TRUE, v |-> IF Truthy(live.v) THEN live.v ELSE initial]

getReceptivity == ReceptivityOf(contxtfulModule, initialReceptivity)

\* setGoogletagTargetingData called n times in a row with the same record
GptAfter(receptivityState, n) ==
    IF googletag = "absent" \/ n = 0
    THEN <<googletag, gptCmd>>
    ELSE <<"cmd", gptCmd \o [i \in 1..n |-> receptivityState]>>

GptRoom(n) == googletag = "absent" \/ Len(gptCmd) + n <= MaxCmd

\* loadExternalScript: the host hands out the script handle of the URL, or none
loadExternalScript(url, hostGives) ==
    IF hostGives THEN [some |-> TRUE, url |-> url] ELSE [some |-> FALSE, url |-> ""]

\* addExternalScriptEventListener: one more listener pair on the handle, if any
addExternalScriptEventListener(script) ==
    IF ~script.some THEN listeners
    ELSE [listeners EXCEPT ![script.url] = @ + 1]

\* initCustomer: the script-load requests it issues and the listeners after it
initCustomer(version, customer, hostGives) ==
    LET url == CONNECTOR_URL(version, customer)
        externalScript == loadExternalScript(url, hostGives)
    IN  [loads |-> <<url>>, listeners |-> addExternalScriptEventListener(externalScript)]

EmptyMapping == [c \in {} |-> Undefined]
Range(f) == {f[i] : i \in DOMAIN f}

\* what getTargetingData does with adUnits in the current state
TargetingData(adUnits) ==
    IF ~adUnits.given THEN [kind |-> "return", ret |-> EmptyMapping]
    ELSE LET receptivity == getReceptivity
         IN  IF ~receptivity.ok THEN [kind |-> "throw", ret |-> EmptyMapping]
             ELSE IF ~Truthy(receptivity.v) THEN [kind |-> "return", ret |-> EmptyMapping]
             ELSE [kind |-> "return",
                   ret |-> [code \in Range(adUnits.codes) |->
                               [ReceptivityState |-> receptivity.v]]]

----------------------------------------------------------------------------
(* Receptivity provider: operations *)

\* a plausible slip: only one of the two module variables reset
ResetState_KeepsHandle ==
    /\ initialReceptivity' = Null
    /\ UNCHANGED contxtfulModule

\* the two assignments init starts with
ResetState ==
    /\ initialReceptivity' = Null
    /\ contxtfulModule' = NoHandle

init(config, hostGives) ==
    LET p == extractParameters(config)
        c == IF p.ok THEN initCustomer(p.version, p.customer, hostGives)
             ELSE [loads |-> <<>>, listeners |-> listeners]
    IN  /\ p.ok /\ hostGives =>
             listeners[CONNECTOR_URL(p.version, p.customer)] < MaxListeners
        /\ ResetState
        /\ listeners' = c.listeners
        /\ initRet' = IF p.ok THEN "true" ELSE "false"
        /\ eventSinceInit' = FALSE
        /\ last' = [op |-> "init", arg |-> config, ret |-> p.ok, logged |-> ~p.ok,
                    loads |-> c.loads, escaped |-> FALSE]
        /\ UNCHANGED <<googletag, gptCmd, bidCall, bidLast>>

\* the script dispatches initialReceptivity: every listener attached to it runs;
\* a listener whose getReceptivity read throws has stored the value but pushes
\* no command, and the exception stays inside that listener
OnInitialReceptivity(script, detail) ==
    LET receptivityState == IF detail.has THEN detail.ReceptivityState ELSE Undefined
        stores == isStr(receptivityState) /\ ~isEmptyStr(receptivityState)
        read == ReceptivityOf(contxtfulModule, receptivityState)
        pushes == IF stores /\ read.ok THEN listeners[script] ELSE 0
        gpt == GptAfter(read.v, pushes)
    IN  /\ listeners[script] > 0
        /\ GptRoom(pushes)
        /\ initialReceptivity' = IF stores THEN receptivityState ELSE initialReceptivity
        /\ googletag' = gpt[1]
        /\ gptCmd' = gpt[2]
        /\ eventSinceInit' = TRUE
        /\ last' = [op |-> "initialReceptivity", arg |-> detail, script |-> script]
        /\ UNCHANGED <<contxtfulModule, listeners, initRet, bidCall, bidLast>>

\* the script dispatches rxEngineIsReady: every listener attached to it runs
OnRxEngineIsReady(script, api) ==
    /\ listeners[script] > 0
    /\ contxtfulModule' = api
    /\ eventSinceInit' = TRUE
    /\ last' = [op |-> "rxEngineIsReady", arg |-> api, script |-> script]
    /\ UNCHANGED <<initialReceptivity, listeners, googletag, gptCmd, initRet, bidCall, bidLast>>

getBidRequestData ==
    LET receptivity == getReceptivity
        gpt == GptAfter(receptivity.v, 1)
    IN  /\ GptRoom(1)
        /\ IF receptivity.ok
           THEN /\ googletag' = gpt[1]
                /\ gptCmd' = gpt[2]
                /\ last' = [op |-> "getBidRequestData", threw |-> FALSE,
                            callbacks |-> 1, callbackArgs |-> 0]
           ELSE /\ UNCHANGED <<googletag, gptCmd>>
                /\ last' = [op |-> "getBidRequestData", threw |-> TRUE,
                            callbacks |-> 0, callbackArgs |-> 0]
        /\ UNCHANGED <<initialReceptivity, contxtfulModule, listeners, initRet,
                       eventSinceInit, bidCall, bidLast>>

getTargetingData(adUnits) ==
    LET r == TargetingData(adUnits)
    IN  /\ last' = [op |-> "getTargetingData", arg |-> adUnits,
                    kind |-> r.kind, ret |-> r.ret]
        /\ UNCHANGED <<initialReceptivity, contxtfulModule, listeners, googletag,
                       gptCmd, initRet, eventSinceInit, bidCall, bidLast>>

\* the page defines window.googletag, with or without its cmd array
PageDefinesGoogletag(g) ==
    /\ googletag = "absent"
    /\ googletag' = g
    /\ UNCHANGED <<initialReceptivity, contxtfulModule, listeners, gptCmd, initRet,
                   eventSinceInit, last, bidCall, bidLast>>

\* the ad-server library runs the queued commands
GptRunsCommands ==
    /\ googletag = "cmd"
    /\ gptCmd # <<>>
    /\ gptCmd' = <<>>
    /\ UNCHANGED <<initialReceptivity, contxtfulModule, listeners, googletag, initRet,
                   eventSinceInit, last, bidCall, bidLast>>

InitRtd ==
    /\ initialReceptivity = Null
    /\ contxtfulModule = NoHandle
    /\ listeners = [u \in ScriptUrls |-> 0]
    /\ googletag = "absent"
    /\ gptCmd = <<>>
    /\ initRet = "none"
    /\ eventSinceInit = FALSE
    /\ last = NoCall

Init ==
    /\ InitRtd
    /\ bidCall = NoCall
    /\ bidLast = NoCall

Next ==
    \/ \E config \in Configs, hostGives \in BOOLEAN : init(config, hostGives)
    \/ \E script \in ScriptUrls, detail \in InitialDetails : OnInitialReceptivity(script, detail)
    \/ \E script \in ScriptUrls, api \in ApiDetails : OnRxEngineIsReady(script, api)
    \/ getBidRequestData
    \/ \E adUnits \in AdUnitArgs : getTargetingData(adUnits)
    \/ \E g \in {"noCmd", "cmd"} : PageDefinesGoogletag(g)
    \/ GptRunsCommands

Spec == Init /\ [][Next]_vars

----------------------------------------------------------------------------
(* Bidder adapter: constants and inputs *)

BIDDER_CODE == "welect"
DEFAULT_DOMAIN == "www.welect.de"

NoList == [def |-> FALSE, list |-> <<>>]
List(l) == [def |-> TRUE, list |-> l]
NoConsent == [def |-> FALSE, gdprApplies |-> Undefined, gdprConsent |-> Undefined]

\* mediaTypes: absent, without video, or with video and its context and playerSize
MediaShapes ==
    {[mediaTypes |-> m, context |-> Undefined, playerSize |-> NoList] : m \in {"absent", "banner"}}
    \cup {[mediaTypes |-> "video", context |-> c, playerSize |-> ps] :
             c \in {Undefined, Str("instream"), Str("outstream")},
             ps \in {NoList, List(<< <<300, 250>>, <<640, 480>> >>)}}

\* params: absent, or present with its placementId and domain
ParamShapes ==
    {[hasParams |-> FALSE, placementId |-> Undefined, domain |-> Undefined]}
    \cup {[hasParams |-> TRUE, placementId |-> pl, domain |-> d] :
             pl \in {Undefined, Str(""), Str("p1")},
             d \in {Undefined, Str("ads.example")}}

Bids ==
    {[mediaTypes |-> m.mediaTypes, context |-> m.context, playerSize |-> m.playerSize,
      hasParams |-> p.hasParams, placementId |-> p.placementId, domain |-> p.domain,
      sizes |-> sz, gdprConsent |-> g, bidId |-> id] :
        m \in MediaShapes, p \in ParamShapes,
        sz \in {List(<<>>), List(<< <<640, 480>> >>)},
        g \in {NoConsent, [def |-> TRUE, gdprApplies |-> Bool("true"), gdprConsent |-> Str("tc")]},
        id \in {"b1", "b2"}}

BidResponses ==
    {[requestId |-> id, cpm |-> cpm, width |-> w, height |-> 480, creativeId |-> "cr1",
      currency |-> "EUR", netRevenue |-> TRUE, ttl |-> 120, ad |-> "<VAST/>",
      vastUrl |-> "https://vast.example/1", advertiserDomains |-> <<"adv.example">>] :
        id \in {"b1", "b2"}, cpm \in {1, 2}, w \in {640, 300}}

\* serverResponse.body: undefined, a string, null, or an object with its available
\* flag and its bidResponse (absent, without meta, or complete)
ServerResponses ==
    {[body |-> k, available |-> Undefined, shape |-> "absent", bidResponse |-> br] :
        k \in {"undefined", "string", "null"},
        br \in {CHOOSE x \in BidResponses : TRUE}}
    \cup {[body |-> "object", available |-> a, shape |-> sh, bidResponse |-> br] :
             a \in {Undefined, Bool("false"), Bool("true"), Str("true"), Num("1")},
             sh \in {"absent", "noMeta", "full"},
             br \in BidResponses}

----------------------------------------------------------------------------
(* Bidder adapter: functions *)

\* deepAccess(bid, 'mediaTypes.video.context')
deepAccessContext(bid) ==
    IF bid.mediaTypes = "video" THEN bid.context ELSE Undefined

\* deepAccess(bidRequest, 'mediaTypes.video.playerSize')
deepAccessPlayerSize(bid) ==
    IF bid.mediaTypes = "video" THEN bid.playerSize ELSE NoList

isBidRequestValid(bid) ==
    IF deepAccessContext(bid) # Str("instream") THEN [kind |-> "return", ret |-> FALSE]
    ELSE IF ~bid.hasParams THEN [kind |-> "throw", ret |-> FALSE]
    ELSE [kind |-> "return", ret |-> Truthy(bid.placementId)]

\* the body of the map callback of buildRequests, for one request
buildRequest(bidRequest) ==
    LET playerSize == deepAccessPlayerSize(bidRequest)
        rawSizes == IF playerSize.def THEN playerSize ELSE bidRequest.sizes
        domain == IF Truthy(bidRequest.domain) THEN bidRequest.domain.v ELSE DEFAULT_DOMAIN
        url == "https://" \o domain \o "/api/v2/preflight/" \o bidRequest.placementId.v
        gdpr == [gdprApplies |-> bidRequest.gdprConsent.gdprApplies,
                 tcString |-> bidRequest.gdprConsent.gdprConsent]
        options == [contentType |-> "application/json", withCredentials |-> FALSE,
                    crossOrigin |-> TRUE]
    IN  IF ~bidRequest.hasParams \/ ~rawSizes.def \/ Len(rawSizes.list) = 0
        THEN [kind |-> "throw", ret |-> <<>>]
        ELSE LET size == rawSizes.list[1]
             IN  [kind |-> "return",
                  ret |-> [method |-> "POST", url |-> url, options |-> options,
                           data |-> IF bidRequest.gdprConsent.def
                                    THEN [width |-> size[1], height |-> size[2],
                                          bid_id |-> bidRequest.bidId, gdpr_consent |-> gdpr]
                                    ELSE [width |-> size[1], height |-> size[2],
                                          bid_id |-> bidRequest.bidId]]]

buildRequests(validBidRequests) ==
    IF \E i \in DOMAIN validBidRequests : buildRequest(validBidRequests[i]).kind = "throw"
    THEN [kind |-> "throw", ret |-> <<>>]
    ELSE [kind |-> "return",
          ret |-> [i \in DOMAIN validBidRequests |-> buildRequest(validBidRequests[i]).ret]]

\* a plausible slip: a truthiness test in place of the strict comparison
Available_Truthy(serverResponse) == Truthy(serverResponse.available)

\* responseBody.available !== true, negated
Available(serverResponse) == serverResponse.available = Bool("true")

interpretResponse(serverResponse) ==
    LET b == serverResponse.bidResponse
    IN  IF serverResponse.body \in {"undefined", "string"}
        THEN [kind |-> "return", ret |-> <<>>]
        ELSE IF serverResponse.body = "null" THEN [kind |-> "throw", ret |-> <<>>]
        ELSE IF ~Available(serverResponse) THEN [kind |-> "return", ret |-> <<>>]
        ELSE IF serverResponse.shape # "full" THEN [kind |-> "throw", ret |-> <<>>]
        ELSE [kind |-> "return",
              ret |-> << [requestId |-> b.requestId, cpm |-> b.cpm, width |-> b.width,
                          height |-> b.height, creativeId |-> b.creativeId,
                          currency |-> b.currency, netRevenue |-> b.netRevenue,
                          ttl |-> b.ttl, ad |-> b.ad, vastUrl |-> b.vastUrl,
                          meta |-> [advertiserDomains |-> b.advertiserDomains]] >>]

\* the requests the host hands to buildRequests: those isBidRequestValid accepted
ValidBids ==
    {bid \in Bids : isBidRequestValid(bid) = [kind |-> "return", ret |-> TRUE]}

----------------------------------------------------------------------------
(* Bidder adapter: operations *)

\* the calls the host can make on the adapter
BidCalls ==
    {[op |-> "isBidRequestValid", arg |-> bid] : bid \in Bids}
    \cup {[op |-> "buildRequests", arg |-> reqs] : reqs \in SeqsUpTo(ValidBids, MaxReqs)}
    \cup {[op |-> "interpretResponse", arg |-> resp] : resp \in ServerResponses}

CallIsBidRequestValid ==
    /\ bidCall.op = "isBidRequestValid"
    /\ bidLast = NoCall
    /\ LET r == isBidRequestValid(bidCall.arg)
       IN  bidLast' = [op |-> bidCall.op, arg |-> bidCall.arg, kind |-> r.kind, ret |-> r.ret]
    /\ UNCHANGED <<rtdVars, bidCall>>

CallBuildRequests ==
    /\ bidCall.op = "buildRequests"
    /\ bidLast = NoCall
    /\ LET r == buildRequests(bidCall.arg)
       IN  bidLast' = [op |-> bidCall.op, arg |-> bidCall.arg, kind |-> r.kind, ret |-> r.ret]
    /\ UNCHANGED <<rtdVars, bidCall>>

CallInterpretResponse ==
    /\ bidCall.op = "interpretResponse"
    /\ bidLast = NoCall
    /\ LET r == interpretResponse(bidCall.arg)
       IN  bidLast' = [op |-> bidCall.op, arg |-> bidCall.arg, kind |-> r.kind, ret |-> r.ret]
    /\ UNCHANGED <<rtdVars, bidCall>>

InitBid ==
    /\ InitRtd
    /\ bidCall \in BidCalls
    /\ bidLast = NoCall

NextBid ==
    \/ CallIsBidRequestValid
    \/ CallBuildRequests
    \/ CallInterpretResponse

SpecBid == InitBid /\ [][NextBid]_vars

----------------------------------------------------------------------------
(* Properties of the receptivity provider, checked under Spec *)

NonEmptyString(x) == x.t = "string" /\ x.v # ""
ConfigVersion(config) == IF config.cfg = "params" THEN config.version ELSE Undefined
ConfigCustomer(config) == IF config.cfg = "params" THEN config.customer ELSE Undefined

\* C1: an init call whose config lacks a non-empty string version or customer
\* returns false, logs an error, lets no exception escape and requests no
\* script; with both present it returns true and requests exactly one script,
\* https://api.receptivity.io/{version}/prebid/{customer}/connector/p.js.
C1_InitValidatesConfig ==
    last.op = "init" =>
        LET version == ConfigVersion(last.arg)
            customer == ConfigCustomer(last.arg)
        IN  IF NonEmptyString(version) /\ NonEmptyString(customer)
            THEN /\ last.ret = TRUE
                 /\ ~last.escaped
                 /\ last.loads = << "https://api.receptivity.io/" \o version.v
                                    \o "/prebid/" \o customer.v \o "/connector/p.js" >>
            ELSE /\ last.ret = FALSE
                 /\ last.logged
                 /\ ~last.escaped
                 /\ last.loads = <<>>

\* an init call with a valid version and an empty customer has returned false
C1_Witness ==
    /\ last.op = "init"
    /\ NonEmptyString(ConfigVersion(last.arg))
    /\ ConfigCustomer(last.arg) = Str("")
    /\ last.ret = FALSE
    /\ last.logged

\* C2: every getBidRequestData call invokes its callback exactly once, with no
\* arguments, before it returns, whatever the stored initial value, the stored
\* handle and the ad-server global are.
C2_CallbackExactlyOnce ==
    last.op = "getBidRequestData" =>
        /\ ~last.threw
        /\ last.callbacks = 1
        /\ last.callbackArgs = 0

\* the token the description of getReceptivity yields for the stored state:
\* the live value when a handle is stored and that value is truthy, otherwise
\* the stored initial value, otherwise unset
LiveValue == IF contxtfulModule.get = "value" THEN contxtfulModule.rs ELSE Undefined
DescribedReceptivity ==
    IF contxtfulModule # NoHandle /\ Truthy(LiveValue) THEN LiveValue
    ELSE initialReceptivity

\* C3: getTargetingData returns the empty mapping when adUnitCodes is absent or
\* no receptivity value is known; otherwise its keys are exactly the supplied
\* codes and every key maps to {ReceptivityState: t}, t the current non-empty
\* token.
C3_TargetingDataShape ==
    last.op = "getTargetingData" =>
        /\ last.kind = "return"
        /\ IF ~last.arg.given \/ ~Truthy(DescribedReceptivity)
           THEN DOMAIN last.ret = {}
           ELSE /\ DOMAIN last.ret = Range(last.arg.codes)
                /\ \A code \in DOMAIN last.ret :
                      last.ret[code] = [ReceptivityState |-> DescribedReceptivity]

\* C4: after a successful init and any events, the receptivity that is read is
\* the live value when a handle is stored and that value is truthy, otherwise
\* the stored initial value, otherwise unset.
C4_ReadPrefersLiveValue ==
    initRet = "true" => getReceptivity = [ok |-> TRUE, v |-> DescribedReceptivity]

\* C5: every init call leaves the stored initial value and the stored handle
\* unset when it returns; until the next event receptivity reads as unset and
\* getTargetingData returns the empty mapping.
C5_InitResetsState ==
    /\ last.op = "init" => initialReceptivity = Null /\ contxtfulModule = NoHandle
    /\ initRet # "none" /\ ~eventSinceInit =>
          /\ initialReceptivity = Null
          /\ contxtfulModule = NoHandle
          /\ getReceptivity = [ok |-> TRUE, v |-> Null]
          /\ last.op = "getTargetingData" =>
                last.kind = "return" /\ DOMAIN last.ret = {}

\* getTargetingData was called with two codes after an init call that followed
\* a successful one (listeners are attached) and before any further event
C5_Witness ==
    /\ initRet = "false"
    /\ \E script \in ScriptUrls : listeners[script] > 0
    /\ ~eventSinceInit
    /\ last.op = "getTargetingData"
    /\ last.arg.given
    /\ Len(last.arg.codes) = 2

\* C9: after an init call that returned false, every getTargetingData call
\* until the next init call returns the empty mapping, whatever happened before
\* the failed init and whatever events fire after it (a call that returns no
\* mapping at all is not counted against the claim here).
C9_NoTargetingAfterFailedInit ==
    initRet = "false" /\ last.op = "getTargetingData" /\ last.kind = "return" =>
        DOMAIN last.ret = {}

\* C10: no initialReceptivity or rxEngineIsReady event, with any payload,
\* returns a stored initial value or a stored handle to unset.
C10_EventsOnlyMoveForward ==
    [][ (\/ \E script \in ScriptUrls, detail \in InitialDetails :
               OnInitialReceptivity(script, detail)
         \/ \E script \in ScriptUrls, api \in ApiDetails :
               OnRxEngineIsReady(script, api))
        => /\ initialReceptivity # Null => initialReceptivity' # Null
           /\ contxtfulModule # NoHandle => contxtfulModule' # NoHandle ]_vars

----------------------------------------------------------------------------
(* Properties of the bidder adapter, checked under SpecBid *)

\* bid.mediaTypes.video.context is the string "instream"
IsInstream(bid) == bid.mediaTypes = "video" /\ bid.context = Str("instream")
\* bid.params.placementId is truthy
HasPlacement(bid) == bid.hasParams /\ Truthy(bid.placementId)

\* C6: isBidRequestValid(bid) returns true exactly when
\* bid.mediaTypes.video.context is "instream" and bid.params.placementId is
\* truthy, and returns false for every other bid.
C6_ValidIffInstreamWithPlacement ==
    bidLast.op = "isBidRequestValid" =>
        /\ bidLast.kind = "return"
        /\ bidLast.ret = (IsInstream(bidLast.arg) /\ HasPlacement(bidLast.arg))

\* the size list a request declares first: mediaTypes.video.playerSize, else sizes
DeclaredSizes(bid) ==
    IF bid.mediaTypes = "video" /\ bid.playerSize.def THEN bid.playerSize.list
    ELSE IF bid.sizes.def THEN bid.sizes.list
    ELSE <<>>

\* C7: for requests that each pass isBidRequestValid, buildRequests returns one
\* descriptor per request, in order: POST to
\* https://{params.domain or www.welect.de}/api/v2/preflight/{placementId} with
\* width and height of the first declared size pair, bid_id, and gdpr_consent
\* exactly when the request carries GDPR consent.
C7_OneDescriptorPerRequest ==
    bidLast.op = "buildRequests" =>
        /\ bidLast.kind = "return"
        /\ Len(bidLast.ret) = Len(bidLast.arg)
        /\ \A i \in DOMAIN bidLast.arg :
              LET req == bidLast.arg[i]
                  d == bidLast.ret[i]
                  domain == IF req.domain.t = "string" /\ req.domain.v # ""
                            THEN req.domain.v ELSE "www.welect.de"
              IN  /\ d.method = "POST"
                  /\ d.url = "https://" \o domain \o "/api/v2/preflight/" \o req.placementId.v
                  /\ d.data.bid_id = req.bidId
                  /\ ("gdpr_consent" \in DOMAIN d.data) = req.gdprConsent.def
                  /\ DeclaredSizes(req) # <<>> =>
                        /\ d.data.width = DeclaredSizes(req)[1][1]
                        /\ d.data.height = DeclaredSizes(req)[1][2]

\* the bid record that copies every field of a bidResponse
CopiedBid(b) ==
    [requestId |-> b.requestId, cpm |-> b.cpm, width |-> b.width, height |-> b.height,
     creativeId |-> b.creativeId, currency |-> b.currency, netRevenue |-> b.netRevenue,
     ttl |-> b.ttl, ad |-> b.ad, vastUrl |-> b.vastUrl,
     meta |-> [advertiserDomains |-> b.advertiserDomains]]

\* C8 as stated: interpretResponse returns the empty sequence when the body is
\* not an object or its available flag is not strictly true, and otherwise
\* exactly one bid record copied from body.bidResponse.
C8_AsStated ==
    bidLast.op = "interpretResponse" =>
        /\ bidLast.kind = "return"
        /\ IF bidLast.arg.body # "object" \/ bidLast.arg.available # Bool("true")
           THEN bidLast.ret = <<>>
           ELSE bidLast.ret = << CopiedBid(bidLast.arg.bidResponse) >>

\* C8: interpretResponse returns the empty sequence when typeof body is not
\* "object" or when the body is a non-null object whose available flag is not
\* strictly true; when available is strictly true and bidResponse with its meta
\* is present it returns exactly one bid record copied from body.bidResponse;
\* for a null body, or an available body without bidResponse or without
\* bidResponse.meta, it faults and returns nothing. No result holds more than
\* one bid.
C8_OneBidOrNoneOrFault ==
    bidLast.op = "interpretResponse" =>
        LET r == bidLast.arg
        IN  /\ bidLast.kind = "return" => Len(bidLast.ret) <= 1
            /\ CASE r.body \in {"undefined", "string"} ->
                      bidLast.kind = "return" /\ bidLast.ret = <<>>
                 [] r.body = "null" -> bidLast.kind = "throw"
                 [] r.body = "object" /\ r.available # Bool("true") ->
                      bidLast.kind = "return" /\ bidLast.ret = <<>>
                 [] r.body = "object" /\ r.available = Bool("true") /\ r.shape # "full" ->
                      bidLast.kind = "throw"
                 [] OTHER ->
                      bidLast.kind = "return" /\ bidLast.ret = << CopiedBid(r.bidResponse) >>

\* interpretResponse has turned an available response into one bid
C8_Witness ==
    /\ bidLast.op = "interpretResponse"
    /\ bidLast.arg.available = Bool("true")
    /\ bidLast.kind = "return"
    /\ Len(bidLast.ret) = 1
    /\ bidLast.ret[1].cpm = 2

====
